---- MODULE Spec2Model ----
(***************************************************************************)
(* The document store (pinia store "documents"): the in-memory collection, *)
(* its pagination counters, the query params, and the asynchronous calls   *)
(* to the remote gateway, each modelled as a call step (the code up to the *)
(* first await) and one step per awaited response.                         *)
(***************************************************************************)
EXTENDS Integers, Sequences, FiniteSets, TLC

\* ------------------------------------------------------------- bounds
\* calls of the collection operations (fetches, pagination, filters, resets),
\* label loading included, and of the single-document operations in one behaviour of
\* the whole store
MaxOps == 2
MaxSingleOps == 1
\* calls in one behaviour of the collection operations alone
MaxPagingOps == 5
\* calls in one behaviour of the single-document operations alone
MaxDocOps == 2
\* entries of a lookup collection and tags of a document the resolver is
\* applied to
MaxTable == 2
MaxTags == 2
\* remote calls awaiting their response at one time
MaxInFlight == 2
MaxAwaitedOps == 5

\* ---------------------------------------------------------- constants
perPage == 10
NoContent == 204
\* a status other than 204, and a call that rejects instead of answering
ServerError == 500
Rejected == 0

Undefined == "undefined"
Null == "null"
\* totalDocuments before a count was stored; a stored count n is <<n>>
NoCount == <<>>
NoFilters == "none"

\* sizes of the remote catalog of public, non-draft documents
TotalChoices == {3, 25}
FilterValues == {"c1"}
Users == {"u1", "u2"}
NoUser == "nouser"
\* the id the remote table gives the first inserted row
FirstNewId == 100
\* an id no row of the remote table has
MissingId == 99
TargetIds == {1, MissingId}
\* the inputs of createDocument and updateDocument
NoFile == [name |-> Null, size |-> 0, type |-> Null]
Files == {[name |-> "a.pdf", size |-> 500000, type |-> "application/pdf"]}
Forms ==
  {[tags |-> <<"t1">>, category |-> "c2", is_public |-> p, is_draft |-> FALSE,
    url |-> [name |-> "base", n |-> 1]] : p \in BOOLEAN}
CollaboratorLists == {<<>>, <<"u1", "u1">>, <<"u2", "u1", "u2">>}
PublicForm == CHOOSE f \in Forms : f.is_public
PrivateForm == CHOOSE f \in Forms : ~f.is_public
AFile == CHOOSE f \in Files : TRUE
\* the calls of createDocument (file, form, collaborators) and of
\* updateDocument (id, form, file, collaborators) the view makes
CreateCalls ==
  {<<NoFile, PublicForm, <<>>>>, <<AFile, PublicForm, <<"u1", "u1">>>>,
   <<AFile, PrivateForm, <<"u2", "u1", "u2">>>>, <<AFile, PublicForm, <<>>>>}
UpdateCalls ==
  {<<1, PublicForm, NoFile, <<"u2", "u1", "u2">>>>,
   <<1, PrivateForm, AFile, <<"u1", "u1">>>>,
   <<MissingId, PublicForm, NoFile, <<>>>>}
\* auth.user when an operation reads it
AuthUsers == {"u1", NoUser}
Criteria == {"mine", "private", "drafts", "sharedWithMe", "other"}
\* what the sibling stores load into their lookup collections
TagTables ==
  {<<[slug |-> "t1", name |-> "T1"]>>,
   <<[slug |-> "t1", name |-> "t2"], [slug |-> "t2", name |-> "T2"]>>}
CategoryTables == {<<[slug |-> "c1", name |-> "C1"]>>}

\* ------------------------------------------------- the remote catalog
TagsOf(i) == IF i % 2 = 1 THEN <<"t1", "t2">> ELSE <<"t2">>
CategoryOf(i) == IF i % 3 = 0 THEN Null ELSE IF i % 3 = 1 THEN "c1" ELSE "c2"
OwnerOf(i) == IF i % 2 = 1 THEN "u1" ELSE "u2"

UrlOf(i) == [name |-> "base", n |-> i]

BaseRow(i) ==
  [id |-> i, tags |-> TagsOf(i), category |-> CategoryOf(i),
   is_public |-> TRUE, is_draft |-> FALSE, user_id |-> OwnerOf(i),
   url |-> UrlOf(i), file_size |-> 1, file_type |-> "text/plain",
   original_name |-> "base"]

Matches(row, filters) == filters = NoFilters \/ row.category = filters

\* rows from..to (zero-based, inclusive) of the listed rows that match
Slice(s, from, to) ==
  IF from + 1 > Len(s) THEN <<>>
  ELSE SubSeq(s, from + 1, IF to + 1 < Len(s) THEN to + 1 ELSE Len(s))

\* the store's refs; tags and categories are the lookup collections of the
\* sibling stores; toasts holds the toast calls the last step made; remote,
\* bucket and collaborators are the gateway's tables and storage; inflight
\* holds the awaited requests not yet answered; ops and singleOps count the
\* calls made; last records the last step's operation, argument and result
VARIABLES
  _documents, errors, error, loadingAll, loadingSingle, uploading,
  loadingNextPage, pageNumber, limitReached, totalDocuments, params,
  tags, categories, toasts,
  remote, bucket, collaborators, nextId, inflight, ops, singleOps, last

vars ==
  <<_documents, errors, error, loadingAll, loadingSingle, uploading,
    loadingNextPage, pageNumber, limitReached, totalDocuments, params,
    tags, categories, toasts, remote, bucket, collaborators, nextId, inflight, ops, singleOps, last>>

\* ------------------------------------------------------ label resolver
\* Array.prototype.find over a lookup collection, as the index of the first
\* entry with the slug (0: none)
RECURSIVE findFrom(_, _, _)
findFrom(table, slug, i) ==
  IF i > Len(table) THEN 0
  ELSE IF table[i].slug = slug THEN i
  ELSE findFrom(table, slug, i + 1)

\* a lookup that returns the last entry with the slug
RECURSIVE findLastFrom(_, _, _)
findLastFrom(table, slug, i) ==
  IF i = 0 THEN 0
  ELSE IF table[i].slug = slug THEN i
  ELSE findLastFrom(table, slug, i - 1)

findLast(table, slug) == findLastFrom(table, slug, Len(table))

find(table, slug) == findFrom(table, slug, 1)

\* table.find((e) => e.slug === slug)?.name ?? slug
nameOrSlug(table, slug) ==
  LET i == find(table, slug)
  IN IF i = 0 \/ table[i].name = Null THEN slug ELSE table[i].name

updateDocumentTagsAndCategory(_doc) ==
  [_doc EXCEPT
     !.category = nameOrSlug(categories, _doc.category),
     !.tags = [k \in 1..Len(_doc.tags) |-> nameOrSlug(tags, _doc.tags[k])]]

\* the computed view of the collection
documents ==
  [k \in 1..Len(_documents) |->
     [_documents[k] EXCEPT
        !.category = nameOrSlug(categories, _documents[k].category),
        !.tags = [j \in 1..Len(_documents[k].tags) |->
                    nameOrSlug(tags, _documents[k].tags[j])]]]

\* ------------------------------------------------------------- errors
EmptyMap == <<>>
\* an error payload of the gateway and a thrown exception: objects with a message
GatewayError == [type |-> "object", message |-> "message"]
Exception == [type |-> "object", message |-> "message"]
StringError(text) == [type |-> "string", message |-> Undefined, text |-> text]

\* if (typeof error === "object" || error.message)
reported(e) == e.type = "object" \/ e.message # Undefined

setKey(map, key, value) ==
  [k \in DOMAIN map \cup {key} |-> IF k = key THEN value ELSE map[k]]

handleDocumentErrorErrors(e, errs) ==
  IF reported(e) THEN setKey(errs, "email", e.message) ELSE errs

handleDocumentErrorToasts(e, tsts) ==
  IF reported(e)
  THEN tsts \cup {[kind |-> "error", title |-> "Document error", message |-> e.message]}
  ELSE tsts

\* --------------------------------------------------------- pagination
defaultRange == [from |-> 0, to |-> perPage - 1]
defaultParams == [order |-> "created_at", range |-> defaultRange, filters |-> NoFilters]

\* nextPage without its early return
nextPageNeverReturnsEarly == FALSE

\* if (limitReached.value) return
nextPageReturnsEarly == limitReached

\* nextPage starting the next range at the last row of this one
nextRangeOverlapping(range) ==
  LET s == range.to IN [from |-> s, to |-> s + (perPage - 1)]

nextRange(range) ==
  LET s == range.to + 1 IN [from |-> s, to |-> s + (perPage - 1)]

\* the watcher as its comment words it: "if length > total, announce limit"
watchDocumentsGreater(n, limit) ==
  IF totalDocuments # NoCount /\ Len(n) > totalDocuments[1] THEN TRUE ELSE limit

\* watch(documents): the callback, run once after the code that assigned
\* the collection
watchDocuments(n, limit) ==
  IF totalDocuments = <<Len(n)>> THEN TRUE ELSE limit

\* resetDocuments leaving the collection as it is
resetDocumentsKeeps(docs) == docs

resetDocuments(docs) == <<>>

\* ------------------------------------------------------------ gateway
Listed(rows) == SelectSeq(rows, LAMBDA r : r.is_public /\ ~r.is_draft)

\* service.getPublicDocuments(order, range, filters): the data it returns
getPublicDocuments(range, filters) ==
  Slice(SelectSeq(Listed(remote), LAMBDA r : Matches(r, filters)),
        range.from, range.to)

\* the requests getDocuments issues before its first await
getDocumentsRequests(pn, p) ==
  (IF pn = 1 THEN <<[kind |-> "count"]>> ELSE <<>>)
  \o <<[kind |-> "page", range |-> p.range, filters |-> p.filters]>>

Room(n) == Len(inflight) + n <= MaxInFlight

RemoveAt(s, i) == SubSeq(s, 1, i - 1) \o SubSeq(s, i + 1, Len(s))

\* the run of awaited calls so far: an initial getDocuments, then nextPage
\* calls each made after the one before it completed, every gateway call
\* answering with data. phase: "start", "loading", "idle", "advancing", or
\* "off" once the behaviour is no such run; n: the nextPage calls completed;
\* counted: whether totalDocuments was known at the first of them
awaitedRun(run, op, ret) ==
  CASE op = "getDocuments" /\ run.phase = "start" ->
         [run EXCEPT !.phase = "loading"]
    [] op = "getDocumentCount" /\ ret = "count" -> run
    [] op = "getDocuments.done" /\ ret = "data" /\ run.phase = "loading" ->
         [run EXCEPT !.phase = "idle"]
    [] op = "getDocuments.done" /\ ret = "data" /\ run.phase = "advancing" ->
         [run EXCEPT !.phase = "idle", !.n = run.n + 1]
    [] op = "nextPage" /\ run.phase = "idle" ->
         [phase |-> IF ret = "noop" THEN "idle" ELSE "advancing",
          n |-> IF ret = "noop" THEN run.n + 1 ELSE run.n,
          counted |-> IF run.n = 0 THEN totalDocuments # NoCount ELSE run.counted]
    [] OTHER -> [run EXCEPT !.phase = "off"]

\* what the last step did: the operation, its argument, what it returned,
\* whether the watcher of the collection ran, the length of the collection
\* before it, and the run of awaited calls it continues
Last(op, arg, ret, watched) ==
  [op |-> op, arg |-> arg, ret |-> ret, watched |-> watched,
   pre |-> Len(_documents), run |-> awaitedRun(last.run, op, ret)]

\* --------------------------------------------------------------- Init
Init ==
  /\ _documents = <<>>
  /\ errors = EmptyMap
  /\ error = Undefined
  /\ loadingAll = FALSE
  /\ loadingSingle = FALSE
  /\ uploading = FALSE
  /\ loadingNextPage = FALSE
  /\ pageNumber = 1
  /\ limitReached = TRUE
  /\ totalDocuments = NoCount
  /\ params = defaultParams
  /\ tags = <<>>
  /\ categories = <<>>
  /\ toasts = {}
  /\ \E n \in TotalChoices :
       /\ remote = [i \in 1..n |-> BaseRow(i)]
       /\ bucket = {UrlOf(i) : i \in 1..n}
  /\ collaborators = {}
  /\ nextId = FirstNewId
  /\ inflight = <<>>
  /\ ops = 0
  /\ singleOps = 0
  /\ last = [op |-> "init", arg |-> Null, ret |-> Undefined, watched |-> FALSE,
             pre |-> 0, run |-> [phase |-> "start", n |-> 0, counted |-> FALSE]]

storeFlags == <<error, loadingSingle, uploading>>
labels == <<tags, categories>>
gateway == <<remote, bucket, collaborators, nextId>>
budgets == <<ops, singleOps>>

\* ------------------------------------------------- pagination actions
\* getDocuments(), called by the view: the code up to the awaited query
GetDocuments ==
  /\ Room(Len(getDocumentsRequests(pageNumber, params)))
  /\ loadingAll' = TRUE
  /\ errors' = EmptyMap
  /\ inflight' = inflight \o getDocumentsRequests(pageNumber, params)
  /\ ops' = ops + 1
  /\ UNCHANGED singleOps
  /\ last' = Last("getDocuments", Null, Undefined, FALSE)
  /\ UNCHANGED <<_documents, storeFlags, loadingNextPage, pageNumber,
                 limitReached, totalDocuments, params, labels, gateway>>
  /\ toasts' = {}

\* nextPage(): returns early at the limit, else advances and fetches
NextPage ==
  /\ ops' = ops + 1
  /\ UNCHANGED singleOps
  /\ IF nextPageReturnsEarly
     THEN /\ last' = Last("nextPage", Null, "noop", FALSE)
          /\ UNCHANGED <<_documents, errors, storeFlags, loadingAll,
                         loadingNextPage, pageNumber, limitReached,
                         totalDocuments, params, labels, gateway, inflight>>
          /\ toasts' = {}
     ELSE /\ Room(1)
          /\ loadingNextPage' = TRUE
          /\ pageNumber' = pageNumber + 1
          /\ params' = [params EXCEPT !.range = nextRange(params.range)]
          /\ loadingAll' = TRUE
          /\ errors' = EmptyMap
          /\ inflight' = inflight \o getDocumentsRequests(pageNumber', params')
          /\ last' = Last("nextPage", Null, "fetch", FALSE)
          /\ UNCHANGED <<_documents, storeFlags, limitReached,
                         totalDocuments, labels, gateway>>
          /\ toasts' = {}

\* getDocumentCount clearing limitReached whatever the count
countAlwaysClearsLimit(count, limit) == FALSE

\* if (count > perPage.value) limitReached.value = false
countClearsLimit(count, limit) == IF count > perPage THEN FALSE ELSE limit

\* the count query of getDocumentCount resolves: a count, an error payload
\* (count null), or a rejection nothing catches
CountResponse(i, outcome) ==
  /\ inflight[i].kind = "count"
  /\ inflight' = RemoveAt(inflight, i)
  /\ last' = Last("getDocumentCount", Null, outcome, FALSE)
  /\ \/ /\ outcome = "count"
        /\ LET count == Len(Listed(remote))
           IN IF count # 0
              THEN /\ totalDocuments' = <<count>>
                   /\ limitReached' = countClearsLimit(count, limitReached)
              ELSE UNCHANGED <<totalDocuments, limitReached>>
        /\ UNCHANGED <<errors>>
        /\ toasts' = {}
     \/ /\ outcome = "error"
        /\ errors' = handleDocumentErrorErrors(
                       StringError("Trouble getting document count"), errors)
        /\ toasts' = handleDocumentErrorToasts(
                       StringError("Trouble getting document count"), {})
        /\ UNCHANGED <<totalDocuments, limitReached>>
     \/ /\ outcome = "throw"
        /\ UNCHANGED <<errors, totalDocuments, limitReached>>
        /\ toasts' = {}
  /\ UNCHANGED <<_documents, storeFlags, loadingAll, loadingNextPage,
                 pageNumber, params, labels, gateway, budgets>>

\* getDocuments without its finally clause
getDocumentsNoFinally(flag) == flag

\* finally { loadingAll.value = false; loadingNextPage.value = false }
getDocumentsFinally(flag) == FALSE

\* the page query of getDocuments resolves (data, error payload, exception)
PageResponse(i, outcome) ==
  /\ inflight[i].kind = "page"
  /\ inflight' = RemoveAt(inflight, i)
  /\ loadingAll' = getDocumentsFinally(loadingAll)
  /\ loadingNextPage' = getDocumentsFinally(loadingNextPage)
  /\ \/ /\ outcome = "data"
        /\ _documents' = _documents
                           \o getPublicDocuments(inflight[i].range, inflight[i].filters)
        /\ limitReached' = watchDocuments(_documents', limitReached)
        /\ last' = Last("getDocuments.done", inflight[i], "data", TRUE)
        /\ UNCHANGED <<errors>>
        /\ toasts' = {}
     \/ /\ outcome = "error"
        /\ errors' = handleDocumentErrorErrors(GatewayError, errors)
        /\ toasts' = handleDocumentErrorToasts(GatewayError, {})
        /\ last' = Last("getDocuments.done", inflight[i], "error", FALSE)
        /\ UNCHANGED <<_documents, limitReached>>
     \/ /\ outcome = "throw"
        /\ errors' = handleDocumentErrorErrors(Exception, errors)
        /\ toasts' = handleDocumentErrorToasts(Exception, {})
        /\ last' = Last("getDocuments.done", inflight[i], "throw", FALSE)
        /\ UNCHANGED <<_documents, limitReached>>
  /\ UNCHANGED <<storeFlags, pageNumber, totalDocuments, params, labels,
                 gateway, budgets>>

\* updateFilters(filters)
UpdateFilters(filters) ==
  /\ Room(Len(getDocumentsRequests(pageNumber, params)))
  /\ params' = [params EXCEPT !.filters = filters]
  /\ _documents' = resetDocuments(_documents)
  /\ limitReached' = watchDocuments(_documents', limitReached)
  /\ loadingAll' = TRUE
  /\ errors' = EmptyMap
  /\ inflight' = inflight \o getDocumentsRequests(pageNumber, params')
  /\ ops' = ops + 1
  /\ UNCHANGED singleOps
  /\ last' = Last("updateFilters", filters, Undefined, TRUE)
  /\ UNCHANGED <<storeFlags, loadingNextPage, pageNumber, totalDocuments,
                 labels, gateway>>
  /\ toasts' = {}

\* resetFilters()
ResetFilters ==
  /\ Room(Len(getDocumentsRequests(pageNumber, params)))
  /\ params' = [params EXCEPT !.filters = NoFilters]
  /\ _documents' = resetDocuments(_documents)
  /\ limitReached' = watchDocuments(_documents', limitReached)
  /\ loadingAll' = TRUE
  /\ errors' = EmptyMap
  /\ inflight' = inflight \o getDocumentsRequests(pageNumber, params')
  /\ ops' = ops + 1
  /\ UNCHANGED singleOps
  /\ last' = Last("resetFilters", Null, Undefined, TRUE)
  /\ UNCHANGED <<storeFlags, loadingNextPage, pageNumber, totalDocuments,
                 labels, gateway>>
  /\ toasts' = {}

\* resetParams()
ResetParams ==
  /\ params' = defaultParams
  /\ ops' = ops + 1
  /\ UNCHANGED singleOps
  /\ last' = Last("resetParams", Null, Undefined, FALSE)
  /\ UNCHANGED <<_documents, errors, storeFlags, loadingAll, loadingNextPage,
                 pageNumber, limitReached, totalDocuments, labels, gateway,
                 inflight>>
  /\ toasts' = {}

\* resetDocuments()
ResetDocuments ==
  /\ _documents' = resetDocuments(_documents)
  /\ limitReached' = watchDocuments(_documents', limitReached)
  /\ ops' = ops + 1
  /\ UNCHANGED singleOps
  /\ last' = Last("resetDocuments", Null, Undefined, TRUE)
  /\ UNCHANGED <<errors, storeFlags, loadingAll, loadingNextPage, pageNumber,
                 totalDocuments, params, labels, gateway, inflight>>
  /\ toasts' = {}

\* ------------------------------------------------------ lookup stores
\* getDocumentTagsAndCategories(): loads each lookup collection that is empty
labelRequests ==
  IF Len(tags) = 0 THEN <<[kind |-> "labels.tags"]>>
  ELSE IF Len(categories) = 0 THEN <<[kind |-> "labels.categories"]>>
  ELSE <<>>

GetDocumentTagsAndCategories ==
  /\ Room(Len(labelRequests))
  /\ inflight' = inflight \o labelRequests
  /\ ops' = ops + 1
  /\ UNCHANGED singleOps
  /\ last' = Last("getDocumentTagsAndCategories", Null, Undefined, FALSE)
  /\ UNCHANGED <<_documents, errors, storeFlags, loadingAll, loadingNextPage,
                 pageNumber, limitReached, totalDocuments, params, labels,
                 gateway>>
  /\ toasts' = {}

\* tagStore.getTags() resolves; the computed view reads the lookup
\* collections once the collection has an entry, so the watcher runs then
TagsResponse(i, table) ==
  /\ inflight[i].kind = "labels.tags"
  /\ tags' = table
  /\ inflight' = RemoveAt(inflight, i)
               \o (IF Len(categories) = 0
                   THEN <<[kind |-> "labels.categories"]>> ELSE <<>>)
  /\ limitReached' = IF Len(_documents) > 0
                     THEN watchDocuments(_documents, limitReached)
                     ELSE limitReached
  /\ last' = Last("getTags.done", Null, Undefined, Len(_documents) > 0)
  /\ UNCHANGED <<_documents, errors, storeFlags, loadingAll, loadingNextPage,
                 pageNumber, totalDocuments, params, categories, gateway,
                 budgets>>
  /\ toasts' = {}

\* categoryStore.getCategories() resolves
CategoriesResponse(i, table) ==
  /\ inflight[i].kind = "labels.categories"
  /\ categories' = table
  /\ inflight' = RemoveAt(inflight, i)
  /\ limitReached' = IF Len(_documents) > 0
                     THEN watchDocuments(_documents, limitReached)
                     ELSE limitReached
  /\ last' = Last("getCategories.done", Null, Undefined, Len(_documents) > 0)
  /\ UNCHANGED <<_documents, errors, storeFlags, loadingAll, loadingNextPage,
                 pageNumber, totalDocuments, params, tags, gateway, budgets>>
  /\ toasts' = {}

\* ---------------------------------------------------- getUserDocuments
\* the criteria-specific queries of the document service, for the user u
userDocuments(criteria, u) ==
  CASE criteria = "private" ->
         SelectSeq(remote, LAMBDA r : r.user_id = u /\ ~r.is_public)
    [] criteria = "drafts" ->
         SelectSeq(remote, LAMBDA r : r.user_id = u /\ r.is_draft)
    [] criteria = "sharedWithMe" ->
         SelectSeq(remote, LAMBDA r : <<r.id, u>> \in collaborators)
    [] OTHER -> SelectSeq(remote, LAMBDA r : r.user_id = u)

\* getUserDocuments(criteria): the code up to the awaited query
GetUserDocuments(criteria) ==
  /\ Room(1)
  /\ loadingAll' = TRUE
  /\ _documents' = <<>>
  /\ limitReached' = watchDocuments(_documents', limitReached)
  /\ errors' = EmptyMap
  /\ inflight' = Append(inflight, [kind |-> "userDocs", criteria |-> criteria])
  /\ singleOps' = singleOps + 1
  /\ UNCHANGED ops
  /\ last' = Last("getUserDocuments", criteria, Undefined, TRUE)
  /\ UNCHANGED <<storeFlags, loadingNextPage, pageNumber, totalDocuments,
                 params, labels, gateway>>
  /\ toasts' = {}

\* the query resolves: the rows are returned with their labels resolved
UserDocumentsResponse(i, outcome, u) ==
  /\ inflight[i].kind = "userDocs"
  /\ inflight' = RemoveAt(inflight, i)
  /\ loadingAll' = FALSE
  /\ \/ /\ outcome = "data"
        /\ LET data == userDocuments(inflight[i].criteria, u)
           IN last' = Last("getUserDocuments.done",
                           [k \in 1..Len(data) |-> updateDocumentTagsAndCategory(data[k])],
                           "data", FALSE)
        /\ UNCHANGED <<errors>>
        /\ toasts' = {}
     \/ /\ outcome = "error"
        /\ errors' = handleDocumentErrorErrors(GatewayError, errors)
        /\ toasts' = handleDocumentErrorToasts(GatewayError, {})
        /\ last' = Last("getUserDocuments.done", Null, "null", FALSE)
     \/ /\ outcome = "throw"
        /\ errors' = handleDocumentErrorErrors(Exception, errors)
        /\ toasts' = handleDocumentErrorToasts(Exception, {})
        /\ last' = Last("getUserDocuments.done", Null, Undefined, FALSE)
  /\ UNCHANGED <<_documents, storeFlags, loadingNextPage, pageNumber,
                 limitReached, totalDocuments, params, labels, gateway, budgets>>

\* ---------------------------------------------------------- getDocument
RowsWithId(id) == SelectSeq(remote, LAMBDA r : r.id = id)

\* getDocument(id), called by the view: the code up to the awaited query
GetDocument(id) ==
  /\ Room(1)
  /\ loadingSingle' = TRUE
  /\ errors' = EmptyMap
  /\ inflight' = Append(inflight, [kind |-> "getDocument", id |-> id])
  /\ singleOps' = singleOps + 1
  /\ UNCHANGED ops
  /\ last' = Last("getDocument", id, Undefined, FALSE)
  /\ UNCHANGED <<_documents, error, uploading, loadingAll, loadingNextPage,
                 pageNumber, limitReached, totalDocuments, params, labels,
                 gateway>>
  /\ toasts' = {}

\* what getDocument does with the query's answer: the errors, the toasts and
\* the value it returns (a row, "null" or "undefined")
getDocumentErrors(outcome) ==
  CASE outcome = "error" -> handleDocumentErrorErrors(GatewayError, errors)
    [] outcome = "throw" -> handleDocumentErrorErrors(Exception, errors)
    [] OTHER -> errors

getDocumentToasts(outcome) ==
  CASE outcome = "error" -> handleDocumentErrorToasts(GatewayError, {})
    [] outcome = "throw" -> handleDocumentErrorToasts(Exception, {})
    [] OTHER -> {}

getDocumentFound(id, outcome) == outcome = "data" /\ Len(RowsWithId(id)) > 0

getDocumentReturn(id, outcome) ==
  IF outcome = "throw" THEN Undefined
  ELSE IF getDocumentFound(id, outcome) THEN "data" ELSE "null"

GetDocumentResponse(i, outcome) ==
  /\ inflight[i].kind = "getDocument"
  /\ inflight' = RemoveAt(inflight, i)
  /\ errors' = getDocumentErrors(outcome)
  /\ toasts' = getDocumentToasts(outcome)
  /\ loadingSingle' = FALSE
  /\ last' = Last("getDocument.done", inflight[i].id,
                  getDocumentReturn(inflight[i].id, outcome), FALSE)
  /\ UNCHANGED <<_documents, error, uploading, loadingAll, loadingNextPage,
                 pageNumber, limitReached, totalDocuments, params, labels,
                 gateway, budgets>>

\* -------------------------------------------------------- deleteDocument
\* deleteDocument(id): the code up to the query getDocument awaits
DeleteDocument(id) ==
  /\ Room(1)
  /\ loadingSingle' = TRUE
  /\ error' = Null
  /\ errors' = EmptyMap
  /\ inflight' = Append(inflight, [kind |-> "delete.get", id |-> id])
  /\ singleOps' = singleOps + 1
  /\ UNCHANGED ops
  /\ last' = Last("deleteDocument", id, Undefined, FALSE)
  /\ UNCHANGED <<_documents, uploading, loadingAll, loadingNextPage,
                 pageNumber, limitReached, totalDocuments, params, labels,
                 gateway>>
  /\ toasts' = {}

\* getDocument resolves inside deleteDocument: no document returns false,
\* else the file removal is issued
DeleteGetResponse(i, outcome) ==
  /\ inflight[i].kind = "delete.get"
  /\ errors' = getDocumentErrors(outcome)
  /\ toasts' = getDocumentToasts(outcome)
  /\ loadingSingle' = FALSE
  /\ IF getDocumentFound(inflight[i].id, outcome)
     THEN /\ inflight' = Append(RemoveAt(inflight, i),
                                [kind |-> "delete.file", id |-> inflight[i].id,
                                 doc |-> RowsWithId(inflight[i].id)[1]])
          /\ last' = Last("deleteDocument.get", inflight[i].id, "data", FALSE)
     ELSE /\ inflight' = RemoveAt(inflight, i)
          /\ last' = Last("deleteDocument.done", inflight[i].id, "false", FALSE)
  /\ UNCHANGED <<_documents, error, uploading, loadingAll, loadingNextPage,
                 pageNumber, limitReached, totalDocuments, params, labels,
                 gateway, budgets>>

\* handleDocumentError({ error: " Error deleting file from bucket" })
FileNotDeleted == [type |-> "object", message |-> Undefined]

\* deleteFile resolves: a failed removal is reported and the row delete is
\* issued all the same
DeleteFileResponse(i, outcome) ==
  /\ inflight[i].kind = "delete.file"
  /\ inflight' = Append(RemoveAt(inflight, i),
                        [kind |-> "delete.row", id |-> inflight[i].id,
                         doc |-> inflight[i].doc])
  /\ last' = Last("deleteDocument.file", inflight[i].id, outcome, FALSE)
  /\ \/ /\ outcome = "data"
        /\ bucket' = bucket \ {inflight[i].doc.url}
        /\ UNCHANGED <<errors>>
        /\ toasts' = {}
     \/ /\ outcome = "error"
        /\ errors' = handleDocumentErrorErrors(FileNotDeleted,
                       handleDocumentErrorErrors(GatewayError, errors))
        /\ toasts' = handleDocumentErrorToasts(FileNotDeleted,
                       handleDocumentErrorToasts(GatewayError, {}))
        /\ UNCHANGED bucket
     \/ /\ outcome = "throw"
        /\ errors' = handleDocumentErrorErrors(FileNotDeleted,
                       handleDocumentErrorErrors(Exception, errors))
        /\ toasts' = handleDocumentErrorToasts(FileNotDeleted,
                       handleDocumentErrorToasts(Exception, {}))
        /\ UNCHANGED bucket
  /\ UNCHANGED <<_documents, storeFlags, loadingAll, loadingNextPage,
                 pageNumber, limitReached, totalDocuments, params, labels,
                 remote, collaborators, nextId, budgets>>

\* _documents.value = documents.value.filter((d) => d.id !== id)
deleteDocumentFilter(id) == SelectSeq(documents, LAMBDA d : d.id # id)

\* the row delete resolves with a status, or rejects
DeleteRowResponse(i, status) ==
  /\ inflight[i].kind = "delete.row"
  /\ inflight' = RemoveAt(inflight, i)
  /\ loadingSingle' = FALSE
  /\ \/ /\ status = NoContent
        /\ remote' = SelectSeq(remote, LAMBDA r : r.id # inflight[i].doc.id)
        /\ _documents' = deleteDocumentFilter(inflight[i].id)
        /\ limitReached' = watchDocuments(_documents', limitReached)
        /\ last' = Last("deleteDocument.done", inflight[i].id, "true", TRUE)
        /\ UNCHANGED <<errors>>
        /\ toasts' = {}
     \/ /\ status = ServerError
        /\ errors' = handleDocumentErrorErrors(
                       StringError("Document not succcessfully deleted"), errors)
        /\ toasts' = handleDocumentErrorToasts(
                       StringError("Document not succcessfully deleted"), {})
        /\ last' = Last("deleteDocument.done", inflight[i].id, "false", FALSE)
        /\ UNCHANGED <<_documents, limitReached, remote>>
     \/ /\ status = Rejected
        /\ errors' = handleDocumentErrorErrors(Exception, errors)
        /\ toasts' = handleDocumentErrorToasts(Exception, {})
        /\ last' = Last("deleteDocument.done", inflight[i].id, Undefined, FALSE)
        /\ UNCHANGED <<_documents, limitReached, remote>>
  /\ UNCHANGED <<error, uploading, loadingAll, loadingNextPage, pageNumber,
                 totalDocuments, params, labels, bucket, collaborators,
                 nextId, budgets>>

\* ---------------------------------------------------- insertCollaborators
RECURSIVE removeFirst(_, _)
removeFirst(list, x) ==
  IF list = <<>> THEN <<>>
  ELSE IF Head(list) = x THEN Tail(list)
  ELSE <<Head(list)>> \o removeFirst(Tail(list), x)

Elements(list) == {list[k] : k \in 1..Len(list)}

\* collaborators.splice(collaborators.findIndex((c) => c === user.id), 1),
\* when a user is signed in and the list includes its id
spliceUser(list, user) ==
  IF user # NoUser /\ user \in Elements(list) THEN removeFirst(list, user) ELSE list

\* Array.from(new Set(list)): the first occurrence of each id, in order
RECURSIVE fromSet(_, _)
fromSet(list, seen) ==
  IF list = <<>> THEN <<>>
  ELSE IF Head(list) \in seen THEN fromSet(Tail(list), seen)
  ELSE <<Head(list)>> \o fromSet(Tail(list), seen \cup {Head(list)})

\* the user_id column of the payload insertCollaborators inserts
insertCollaboratorsPayload(list, user) == fromSet(spliceUser(list, user), {})

\* the insert insertCollaborators issues; report is the return value of the
\* operation that awaits it ("none": nothing awaits it)
collaboratorInsert(documentId, list, user, report) ==
  [kind |-> "collab.insert", id |-> documentId, input |-> list, user |-> user,
   payload |-> insertCollaboratorsPayload(list, user), report |-> report]

\* the insert resolves; updateDocument, which awaits it, then returns
CollaboratorInsertResponse(i, outcome) ==
  /\ inflight[i].kind = "collab.insert"
  /\ inflight' = RemoveAt(inflight, i)
  /\ \/ /\ outcome = "data"
        /\ collaborators' = collaborators
             \cup {<<inflight[i].id, u>> : u \in Elements(inflight[i].payload)}
        /\ UNCHANGED <<errors>>
        /\ toasts' = {}
     \/ /\ outcome = "error"
        /\ errors' = handleDocumentErrorErrors(GatewayError, errors)
        /\ toasts' = handleDocumentErrorToasts(GatewayError, {})
        /\ UNCHANGED collaborators
     \/ /\ outcome = "throw"
        /\ errors' = handleDocumentErrorErrors(Exception, errors)
        /\ toasts' = handleDocumentErrorToasts(Exception, {})
        /\ UNCHANGED collaborators
  /\ IF inflight[i].report = "none"
     THEN /\ last' = Last("insertCollaborators.done", inflight[i].id, outcome, FALSE)
          /\ UNCHANGED loadingSingle
     ELSE /\ last' = Last("updateDocument.done", inflight[i].id, inflight[i].report, FALSE)
          /\ loadingSingle' = FALSE
  /\ UNCHANGED <<_documents, error, uploading, loadingAll, loadingNextPage,
                 pageNumber, limitReached, totalDocuments, params, labels,
                 remote, bucket, nextId, budgets>>

\* -------------------------------------------------------- createDocument
\* if (!file)
fileMissing(file) == file = NoFile

\* createDocument without its finally clause
createDocumentNoFinally(flag) == flag

\* finally { loadingSingle.value = false }
createDocumentFinally(flag) == FALSE

\* generateSlug(file.name) under public/
uploadPath(file) == [name |-> file.name, n |-> 0]

\* createDocument(file, form, collaborators): without a file it returns
\* false at once, else the code up to the awaited upload
CreateDocument(file, form, list) ==
  /\ singleOps' = singleOps + 1
  /\ UNCHANGED ops
  /\ IF fileMissing(file)
     THEN /\ errors' = setKey(errors, "document", "Document not added.")
          /\ loadingSingle' = createDocumentFinally(TRUE)
          /\ last' = Last("createDocument.done", file, "false", FALSE)
          /\ UNCHANGED <<uploading, inflight>>
     ELSE /\ Room(1)
          /\ loadingSingle' = TRUE
          /\ uploading' = TRUE
          /\ inflight' = Append(inflight, [kind |-> "create.upload", file |-> file,
                                           form |-> form, list |-> list])
          /\ last' = Last("createDocument", file, Undefined, FALSE)
          /\ UNCHANGED errors
  /\ UNCHANGED <<_documents, error, loadingAll, loadingNextPage, pageNumber,
                 limitReached, totalDocuments, params, labels, gateway>>
  /\ toasts' = {}

\* the row createDocument inserts
createPayload(form, file, path, user) ==
  [tags |-> form.tags, category |-> form.category, is_public |-> form.is_public,
   is_draft |-> form.is_draft, url |-> path, file_type |-> file.type,
   file_size |-> file.size, original_name |-> file.name, user_id |-> user]

\* the upload resolves: with no path or no signed-in user createDocument
\* returns false, else it issues the insert
CreateUploadResponse(i, outcome, user) ==
  /\ inflight[i].kind = "create.upload"
  /\ uploading' = FALSE
  /\ \/ /\ outcome = "data"
        /\ uploadPath(inflight[i].file) \notin bucket
        /\ bucket' = bucket \cup {uploadPath(inflight[i].file)}
        /\ UNCHANGED <<errors>>
        /\ toasts' = {}
     \/ /\ outcome = "error"
        /\ UNCHANGED <<errors, bucket>>
        /\ toasts' = {}
     \/ /\ outcome = "throw"
        /\ errors' = handleDocumentErrorErrors(Exception, errors)
        /\ toasts' = handleDocumentErrorToasts(Exception, {})
        /\ UNCHANGED bucket
  /\ IF outcome # "data" \/ user = NoUser
     THEN /\ inflight' = RemoveAt(inflight, i)
          /\ loadingSingle' = createDocumentFinally(loadingSingle)
          /\ last' = Last("createDocument.done", inflight[i].file, "false", FALSE)
     ELSE /\ inflight' = Append(RemoveAt(inflight, i),
               [kind |-> "create.insert", list |-> inflight[i].list, user |-> user,
                file |-> inflight[i].file,
                payload |-> createPayload(inflight[i].form, inflight[i].file,
                                          uploadPath(inflight[i].file), user)])
          /\ last' = Last("createDocument.upload", inflight[i].file, "data", FALSE)
          /\ UNCHANGED loadingSingle
  /\ UNCHANGED <<_documents, error, loadingAll, loadingNextPage, pageNumber,
                 limitReached, totalDocuments, params, labels, remote,
                 collaborators, nextId, budgets>>

\* a record with the fields of both, those of b first
merge(a, b) ==
  [k \in DOMAIN a \cup DOMAIN b |-> IF k \in DOMAIN b THEN b[k] ELSE a[k]]

DocumentCreated ==
  [kind |-> "success", title |-> "Document created!", message |-> "uploaded"]

\* the insert resolves: on data the collaborators are inserted without
\* being awaited, and the rows are returned
CreateInsertResponse(i, outcome) ==
  /\ inflight[i].kind = "create.insert"
  /\ loadingSingle' = createDocumentFinally(loadingSingle)
  /\ \/ /\ outcome = "data"
        /\ remote' = <<merge([id |-> nextId], inflight[i].payload)>> \o remote
        /\ nextId' = nextId + 1
        /\ toasts' = {DocumentCreated}
        /\ inflight' = RemoveAt(inflight, i)
             \o (IF Len(inflight[i].list) # 0
                 THEN <<collaboratorInsert(nextId, inflight[i].list,
                                           inflight[i].user, "none")>>
                 ELSE <<>>)
        /\ last' = Last("createDocument.done", inflight[i].file, "data", FALSE)
        /\ UNCHANGED errors
     \/ /\ outcome = "error"
        /\ errors' = handleDocumentErrorErrors(GatewayError, errors)
        /\ toasts' = handleDocumentErrorToasts(GatewayError, {})
        /\ inflight' = RemoveAt(inflight, i)
        /\ last' = Last("createDocument.done", inflight[i].file, "null", FALSE)
        /\ UNCHANGED <<remote, nextId>>
     \/ /\ outcome = "throw"
        /\ errors' = handleDocumentErrorErrors(Exception, errors)
        /\ toasts' = handleDocumentErrorToasts(Exception, {})
        /\ inflight' = RemoveAt(inflight, i)
        /\ last' = Last("createDocument.done", inflight[i].file, Undefined, FALSE)
        /\ UNCHANGED <<remote, nextId>>
  /\ UNCHANGED <<_documents, error, uploading, loadingAll, loadingNextPage,
                 pageNumber, limitReached, totalDocuments, params, labels,
                 bucket, collaborators, budgets>>

\* -------------------------------------------------------- updateDocument
\* updateDocument(id, data, file, collaborators): the code up to the query
\* getDocument awaits
UpdateDocument(id, form, file, list) ==
  /\ Room(1)
  /\ loadingSingle' = TRUE
  /\ error' = Null
  /\ errors' = EmptyMap
  /\ inflight' = Append(inflight, [kind |-> "update.get", id |-> id, form |-> form,
                                   file |-> file, list |-> list])
  /\ singleOps' = singleOps + 1
  /\ UNCHANGED ops
  /\ last' = Last("updateDocument", id, Undefined, FALSE)
  /\ UNCHANGED <<_documents, uploading, loadingAll, loadingNextPage,
                 pageNumber, limitReached, totalDocuments, params, labels,
                 gateway>>
  /\ toasts' = {}

formFields(form) ==
  [tags |-> form.tags, category |-> form.category, is_public |-> form.is_public,
   is_draft |-> form.is_draft, url |-> form.url]

\* fileDetails: the file's size, type and name, and the url when updateFile
\* returned one (NoUrl: it returned null or undefined)
NoUrl == [name |-> Null, n |-> 0]

fileDetails(file, url) ==
  IF url = NoUrl
  THEN [file_size |-> file.size, file_type |-> file.type, original_name |-> file.name]
  ELSE [file_size |-> file.size, file_type |-> file.type,
        original_name |-> file.name, url |-> url]

\* getDocument resolves inside updateDocument: no document returns false,
\* else the file is replaced when one was given, else the row update is issued
UpdateGetResponse(i, outcome) ==
  /\ inflight[i].kind = "update.get"
  /\ errors' = getDocumentErrors(outcome)
  /\ toasts' = getDocumentToasts(outcome)
  /\ loadingSingle' = FALSE
  /\ IF ~getDocumentFound(inflight[i].id, outcome)
     THEN /\ inflight' = RemoveAt(inflight, i)
          /\ last' = Last("updateDocument.done", inflight[i].id, "false", FALSE)
     ELSE LET doc == RowsWithId(inflight[i].id)[1]
          IN /\ inflight' = Append(RemoveAt(inflight, i),
                  IF inflight[i].file # NoFile
                  THEN [kind |-> "update.file", id |-> inflight[i].id, doc |-> doc,
                        form |-> inflight[i].form, file |-> inflight[i].file,
                        list |-> inflight[i].list]
                  ELSE [kind |-> "update.row", id |-> inflight[i].id, doc |-> doc,
                        list |-> inflight[i].list, upload |-> "none",
                        payload |-> formFields(inflight[i].form)])
             /\ last' = Last("updateDocument.get", inflight[i].id, "data", FALSE)
  /\ UNCHANGED <<_documents, error, uploading, loadingAll, loadingNextPage,
                 pageNumber, limitReached, totalDocuments, params, labels,
                 gateway, budgets>>

\* updateFile resolves: the replacement is stored at the document's path;
\* the row update issued next keeps how the upload ended ("none": no file)
UpdateFileResponse(i, outcome) ==
  /\ inflight[i].kind = "update.file"
  /\ \/ /\ outcome = "data"
        /\ inflight[i].doc.url \in bucket
        /\ UNCHANGED <<errors>>
        /\ toasts' = {}
     \/ /\ outcome = "error"
        /\ errors' = handleDocumentErrorErrors(GatewayError, errors)
        /\ toasts' = handleDocumentErrorToasts(GatewayError, {})
     \/ /\ outcome = "throw"
        /\ errors' = handleDocumentErrorErrors(Exception, errors)
        /\ toasts' = handleDocumentErrorToasts(Exception, {})
  /\ LET url == IF outcome = "data" THEN inflight[i].doc.url ELSE NoUrl
     IN inflight' = Append(RemoveAt(inflight, i),
          [kind |-> "update.row", id |-> inflight[i].id, doc |-> inflight[i].doc,
           list |-> inflight[i].list, upload |-> outcome,
           payload |-> merge(formFields(inflight[i].form),
                             fileDetails(inflight[i].file, url))])
  /\ last' = Last("updateDocument.file", inflight[i].id, outcome, FALSE)
  /\ UNCHANGED <<_documents, storeFlags, loadingAll, loadingNextPage,
                 pageNumber, limitReached, totalDocuments, params, labels,
                 gateway, budgets>>

UpdateSuccessful ==
  [kind |-> "success", title |-> "Update successful", message |-> "updated"]

\* the row update resolves: only status 204 goes on to updateCollaborators,
\* which first deletes the document's collaborator rows
UpdateRowResponse(i, status) ==
  /\ inflight[i].kind = "update.row"
  /\ \/ /\ status = NoContent
        /\ remote' = [k \in 1..Len(remote) |->
                        IF remote[k].id = inflight[i].doc.id
                        THEN merge(remote[k], inflight[i].payload)
                        ELSE remote[k]]
        /\ toasts' = {UpdateSuccessful}
        /\ inflight' = Append(RemoveAt(inflight, i),
             [kind |-> "update.collabDelete", id |-> inflight[i].id,
              list |-> inflight[i].list])
        /\ last' = Last("updateDocument.row", inflight[i].id, "data", FALSE)
        /\ UNCHANGED <<errors, loadingSingle>>
     \/ /\ status = ServerError
        /\ errors' = handleDocumentErrorErrors(
                       StringError("Document not succcessfully updated"), errors)
        /\ toasts' = handleDocumentErrorToasts(
                       StringError("Document not succcessfully updated"), {})
        /\ inflight' = RemoveAt(inflight, i)
        /\ loadingSingle' = FALSE
        /\ last' = Last("updateDocument.done", inflight[i].id, "false", FALSE)
        /\ UNCHANGED remote
     \/ /\ status = Rejected
        /\ errors' = handleDocumentErrorErrors(Exception, errors)
        /\ toasts' = handleDocumentErrorToasts(Exception, {})
        /\ inflight' = RemoveAt(inflight, i)
        /\ loadingSingle' = FALSE
        /\ last' = Last("updateDocument.done", inflight[i].id, Undefined, FALSE)
        /\ UNCHANGED remote
  /\ UNCHANGED <<_documents, error, uploading, loadingAll, loadingNextPage,
                 pageNumber, limitReached, totalDocuments, params, labels,
                 bucket, collaborators, nextId, budgets>>

\* updateCollaborators: the delete resolves and, unless it rejected,
\* insertCollaborators issues the insert, which updateDocument awaits
UpdateCollaboratorsResponse(i, status, user) ==
  /\ inflight[i].kind = "update.collabDelete"
  /\ \/ /\ status = NoContent
        /\ collaborators' = {c \in collaborators : c[1] # inflight[i].id}
        /\ inflight' = Append(RemoveAt(inflight, i),
             collaboratorInsert(inflight[i].id, inflight[i].list, user, "data"))
        /\ last' = Last("updateCollaborators", inflight[i].id, "data", FALSE)
        /\ UNCHANGED <<errors, loadingSingle>>
        /\ toasts' = {}
     \/ /\ status = ServerError
        /\ errors' = handleDocumentErrorErrors(
                       StringError("Error removing collaborators ( 1 )"), errors)
        /\ toasts' = handleDocumentErrorToasts(
                       StringError("Error removing collaborators ( 1 )"), {})
        /\ inflight' = Append(RemoveAt(inflight, i),
             collaboratorInsert(inflight[i].id, inflight[i].list, user, "data"))
        /\ last' = Last("updateCollaborators", inflight[i].id, "error", FALSE)
        /\ UNCHANGED <<collaborators, loadingSingle>>
     \/ /\ status = Rejected
        /\ errors' = handleDocumentErrorErrors(Exception, errors)
        /\ toasts' = handleDocumentErrorToasts(Exception, {})
        /\ inflight' = RemoveAt(inflight, i)
        /\ loadingSingle' = FALSE
        /\ last' = Last("updateDocument.done", inflight[i].id, Undefined, FALSE)
        /\ UNCHANGED collaborators
  /\ UNCHANGED <<_documents, error, uploading, loadingAll, loadingNextPage,
                 pageNumber, limitReached, totalDocuments, params, labels,
                 remote, bucket, nextId, budgets>>

Outcomes == {"data", "error", "throw"}
Statuses == {NoContent, ServerError, Rejected}

\* ------------------------------------------------------ specifications
\* the calls the view makes of the collection operations
CollectionCall ==
  \/ GetDocuments
  \/ NextPage
  \/ \E f \in FilterValues : UpdateFilters(f)
  \/ ResetFilters
  \/ ResetParams
  \/ ResetDocuments

\* the responses to what the collection operations await
CollectionResponse ==
  \/ \E i \in 1..Len(inflight) : \E o \in {"count", "error", "throw"} : CountResponse(i, o)
  \/ \E i \in 1..Len(inflight) : \E o \in Outcomes : PageResponse(i, o)

\* the sibling stores answer getDocumentTagsAndCategories
LabelResponse ==
  \/ \E i \in 1..Len(inflight) : \E t \in TagTables : TagsResponse(i, t)
  \/ \E i \in 1..Len(inflight) : \E t \in CategoryTables : CategoriesResponse(i, t)

\* the calls the view makes of the single-document operations
DocumentCall ==
  \/ \E c \in Criteria : GetUserDocuments(c)
  \/ \E id \in TargetIds : GetDocument(id)
  \/ \E id \in TargetIds : DeleteDocument(id)
  \/ \E c \in CreateCalls : CreateDocument(c[1], c[2], c[3])
  \/ \E c \in UpdateCalls : UpdateDocument(c[1], c[2], c[3], c[4])

\* the responses to what the single-document operations await
DocumentResponse ==
  \/ \E i \in 1..Len(inflight) : \E o \in Outcomes : \E u \in AuthUsers :
       UserDocumentsResponse(i, o, u)
  \/ \E i \in 1..Len(inflight) : \E o \in Outcomes : GetDocumentResponse(i, o)
  \/ \E i \in 1..Len(inflight) : \E o \in Outcomes : DeleteGetResponse(i, o)
  \/ \E i \in 1..Len(inflight) : \E o \in Outcomes : DeleteFileResponse(i, o)
  \/ \E i \in 1..Len(inflight) : \E st \in Statuses : DeleteRowResponse(i, st)
  \/ \E i \in 1..Len(inflight) : \E o \in Outcomes : \E u \in AuthUsers :
       CreateUploadResponse(i, o, u)
  \/ \E i \in 1..Len(inflight) : \E o \in Outcomes : CreateInsertResponse(i, o)
  \/ \E i \in 1..Len(inflight) : \E o \in Outcomes : CollaboratorInsertResponse(i, o)
  \/ \E i \in 1..Len(inflight) : \E o \in Outcomes : UpdateGetResponse(i, o)
  \/ \E i \in 1..Len(inflight) : \E o \in Outcomes : UpdateFileResponse(i, o)
  \/ \E i \in 1..Len(inflight) : \E st \in Statuses : UpdateRowResponse(i, st)
  \/ \E i \in 1..Len(inflight) : \E st \in Statuses : \E u \in AuthUsers :
       UpdateCollaboratorsResponse(i, st, u)

\* the whole store
Next ==
  \/ ops < MaxOps /\ CollectionCall
  \/ CollectionResponse
  \/ ops < MaxOps /\ GetDocumentTagsAndCategories
  \/ LabelResponse
  \/ singleOps < MaxSingleOps /\ DocumentCall
  \/ DocumentResponse

Spec == Init /\ [][Next]_vars

\* the collection operations alone, against a catalog nothing else changes
NextPaging ==
  \/ ops < MaxPagingOps /\ CollectionCall
  \/ CollectionResponse

SpecPaging == Init /\ [][NextPaging]_vars

\* the single-document operations alone
NextDocs ==
  \/ singleOps < MaxDocOps /\ DocumentCall
  \/ DocumentResponse

SpecDocs == Init /\ [][NextDocs]_vars

\* ---------------------------------------------- the label resolver alone
SeqsUpTo(S, n) == UNION {[1..k -> S] : k \in 0..n}

\* lookup collections and documents the resolver is applied to; "b" is a
\* slug and also a display name
ResolverEntries == {[slug |-> sl, name |-> nm] : sl \in {"a", "b"}, nm \in {"A", "b"}}
ResolverTagTables == SeqsUpTo(ResolverEntries, MaxTable)
ResolverCategoryTables ==
  {<<>>, <<[slug |-> "a", name |-> "A"]>>,
   <<[slug |-> "a", name |-> "b"], [slug |-> "b", name |-> "A"]>>}
ResolverDocuments ==
  {[BaseRow(1) EXCEPT !.tags = t, !.category = c] :
     t \in SeqsUpTo({"a", "b", "A"}, MaxTags), c \in {Null, "a", "b"}}

InitResolver ==
  /\ \E d \in ResolverDocuments : _documents = <<d>>
  /\ tags \in ResolverTagTables
  /\ categories \in ResolverCategoryTables
  /\ errors = EmptyMap
  /\ error = Undefined
  /\ loadingAll = FALSE
  /\ loadingSingle = FALSE
  /\ uploading = FALSE
  /\ loadingNextPage = FALSE
  /\ pageNumber = 1
  /\ limitReached = TRUE
  /\ totalDocuments = NoCount
  /\ params = defaultParams
  /\ toasts = {}
  /\ remote = <<>>
  /\ bucket = {}
  /\ collaborators = {}
  /\ nextId = FirstNewId
  /\ inflight = <<>>
  /\ ops = 0
  /\ singleOps = 0
  /\ last = [op |-> "init", arg |-> Null, ret |-> Undefined, watched |-> FALSE,
             pre |-> 1, run |-> [phase |-> "off", n |-> 0, counted |-> FALSE]]

\* updateDocumentTagsAndCategory applied to the stored document, or to the
\* document the last application returned
ResolveDocument ==
  /\ \E d \in {_documents[1]}
               \cup (IF last.op = "updateDocumentTagsAndCategory" THEN {last.ret} ELSE {}) :
       last' = Last("updateDocumentTagsAndCategory", d,
                    updateDocumentTagsAndCategory(d), FALSE)
  /\ UNCHANGED <<_documents, errors, storeFlags, loadingAll, loadingNextPage,
                 pageNumber, limitReached, totalDocuments, params, labels,
                 toasts, gateway, inflight, budgets>>

\* a read of the computed view
ReadDocuments ==
  /\ last' = Last("documents", _documents, documents, FALSE)
  /\ UNCHANGED <<_documents, errors, storeFlags, loadingAll, loadingNextPage,
                 pageNumber, limitReached, totalDocuments, params, labels,
                 toasts, gateway, inflight, budgets>>

NextResolver ==
  \/ ResolveDocument
  \/ ReadDocuments

SpecResolver == InitResolver /\ [][NextResolver]_vars

\* ================================================================ claims
NoDuplicates(list) == \A j, k \in 1..Len(list) : list[j] = list[k] => j = k

\* C1: the payload inserted into document_collaborators never holds the
\* acting user's id and never holds the same user id twice, whatever list
\* insertCollaborators was given.
C1_PayloadWithoutActorOrDuplicates ==
  \A i \in 1..Len(inflight) :
    inflight[i].kind = "collab.insert" =>
      /\ inflight[i].user \notin Elements(inflight[i].payload)
      /\ NoDuplicates(inflight[i].payload)

\* a step that is a call of nextPage
NextPageStep == ops' = ops + 1 /\ last'.op = "nextPage"

\* C2: a call of nextPage while limitReached is true changes neither
\* pageNumber, params.range, loadingNextPage nor the collection and issues no
\* fetch; and no call of nextPage decreases pageNumber, range.from or
\* range.to, or leaves a range narrower than perPage.
C2_NextPageNoopAtLimitAndMonotone ==
  [][NextPageStep =>
       /\ limitReached =>
            UNCHANGED <<pageNumber, params, loadingNextPage, _documents, inflight>>
       /\ pageNumber' >= pageNumber
       /\ params'.range.from >= params.range.from
       /\ params'.range.to >= params.range.to
       /\ params'.range.to - params'.range.from + 1 >= perPage]_vars

C2_Witness ==
  /\ last.op = "nextPage"
  /\ last.ret = "noop"
  /\ pageNumber > 1
  /\ Len(_documents) > perPage

C4_DeleteRemovesExactlyTheEntry ==
  [][last'.op = "deleteDocument.done" =>
       IF last'.ret = "true"
       THEN Cardinality({k \in 1..Len(_documents) : _documents[k].id = last'.arg}) = 1
            => _documents' = SelectSeq(_documents, LAMBDA d : d.id # last'.arg)
       ELSE _documents' = _documents /\ last'.ret \in {"false", Undefined}]_vars

\* C5: no step writes into the stored collection anything but entries it
\* already held and rows as the gateway holds them: the tag and category
\* slugs of a stored entry are never replaced by display names.
C5_StoredEntriesAreGatewayRows ==
  [][\A k \in 1..Len(_documents') :
       _documents'[k] \in Elements(_documents) \cup Elements(remote)]_vars

\* C6: the fetch updateFilters issues asks for the first page, range
\* {from: 0, to: perPage - 1}, with the new filters.
C6_UpdateFiltersFetchesFirstPage ==
  last.op = "updateFilters" =>
    /\ Len(inflight) > 0
    /\ inflight[Len(inflight)] =
         [kind |-> "page", range |-> defaultRange, filters |-> last.arg]

\* C7: right after updateFilters or resetFilters returned, before the fetch
\* it issued resolves, the collection is empty.
C7_CollectionEmptyAfterFilterChange ==
  last.op \in {"updateFilters", "resetFilters"} =>
    /\ _documents = <<>>
    /\ Len(inflight) > 0
    /\ inflight[Len(inflight)].kind = "page"

C7_Witness ==
  /\ last.op \in {"updateFilters", "resetFilters"}
  /\ last.pre > 0

\* the catalog of the scenario: 25 public, non-draft documents
Catalog25 == Len(Listed(remote)) = 25

\* C8 as claimed: with perPage = 10 and 25 documents, after the initial page
\* load and 3 awaited nextPage calls limitReached is true, and a 4th call
\* changes nothing and issues no fetch.
C8_LimitAfterThreeAdvances ==
  /\ [](Catalog25 /\ last.run.phase = "idle" /\ last.run.n = 3 => limitReached)
  /\ [][(Catalog25 /\ last.run.phase = "idle" /\ last.run.n = 3 /\ NextPageStep) =>
          UNCHANGED <<pageNumber, params, _documents, inflight>>]_vars

\* C8 as amended: the same, when the count request of the initial load had
\* resolved (totalDocuments = 25) before the first nextPage call.
C8_LimitAfterThreeAdvancesOnceCounted ==
  /\ [](Catalog25 /\ last.run.phase = "idle" /\ last.run.n = 3 /\ last.run.counted
          => limitReached)
  /\ [][(Catalog25 /\ last.run.phase = "idle" /\ last.run.n = 3 /\ last.run.counted
          /\ NextPageStep) =>
          UNCHANGED <<pageNumber, params, _documents, inflight>>]_vars

C8_Witness ==
  /\ Catalog25
  /\ last.run.phase = "idle"
  /\ last.run.n = 4
  /\ last.run.counted
  /\ last.op = "nextPage"
  /\ Len(_documents) = 25

\* the entry a lookup by slug finds: the first one with the slug
firstWith(table, slug) ==
  CHOOSE k \in 1..Len(table) :
    table[k].slug = slug /\ \A j \in 1..(k - 1) : table[j].slug # slug

expectedName(table, slug) ==
  IF \E k \in 1..Len(table) : table[k].slug = slug
  THEN table[firstWith(table, slug)].name
  ELSE slug

\* out is d with each tag slug and the category slug looked up
ResolvedFrom(d, out) ==
  /\ Len(out.tags) = Len(d.tags)
  /\ \A k \in 1..Len(d.tags) : out.tags[k] = expectedName(tags, d.tags[k])
  /\ out.category = expectedName(categories, d.category)
  /\ out = [d EXCEPT !.tags = out.tags, !.category = out.category]

LookupHolds ==
  /\ last.op = "updateDocumentTagsAndCategory" => ResolvedFrom(last.arg, last.ret)
  /\ last.op = "documents" =>
       /\ Len(last.ret) = Len(last.arg)
       /\ \A k \in 1..Len(last.arg) : ResolvedFrom(last.arg[k], last.ret[k])

\* C9 as claimed: the resolver maps each tag slug and the category slug to
\* the name of the lookup entry with that slug, or to the slug when there is
\* none, keeping the order and number of tags; and resolving a resolved
\* document returns it unchanged.
C9_ResolverLookupAndIdempotent ==
  /\ LookupHolds
  /\ last.op = "updateDocumentTagsAndCategory" =>
       updateDocumentTagsAndCategory(last.ret) = last.ret

\* every display name of the table resolves to itself
NamesResolveToThemselves(table) ==
  \A k \in 1..Len(table) : expectedName(table, table[k].name) = table[k].name

\* C9 as amended: the lookup as claimed (the first entry with the slug);
\* resolving a resolved document returns it unchanged when no display name of
\* a lookup collection is the slug of an entry with another name.
C9_ResolverLookupAndIdempotentOnStableNames ==
  /\ LookupHolds
  /\ (/\ last.op = "updateDocumentTagsAndCategory"
      /\ NamesResolveToThemselves(tags)
      /\ NamesResolveToThemselves(categories)) =>
       updateDocumentTagsAndCategory(last.ret) = last.ret

C9_Witness ==
  /\ last.op = "updateDocumentTagsAndCategory"
  /\ NamesResolveToThemselves(tags)
  /\ NamesResolveToThemselves(categories)
  /\ last.ret # last.arg
  /\ Len(last.arg.tags) = 2
  /\ last.ret.tags[1] # last.arg.tags[1]
  /\ last.ret.tags[2] = last.arg.tags[2]
  /\ last.ret.category # last.arg.category

\* a step that is a call of createDocument without a file
CreateWithoutFileStep ==
  /\ singleOps' = singleOps + 1
  /\ last'.op \in {"createDocument", "createDocument.done"}
  /\ last'.arg = NoFile

\* C10: createDocument called without a file returns false, issues no remote
\* call (no upload, no document insert, no collaborator insert) and leaves
\* loadingSingle false.
C10_CreateWithoutFileReturnsFalse ==
  [][CreateWithoutFileStep =>
       /\ last'.op = "createDocument.done"
       /\ last'.ret = "false"
       /\ inflight' = inflight
       /\ UNCHANGED gateway
       /\ loadingSingle' = FALSE]_vars

C10_Witness ==
  /\ last.op = "createDocument.done"
  /\ last.arg = NoFile
  /\ last.ret = "false"
  /\ "document" \in DOMAIN errors
  /\ singleOps = 2

\* a step in which the row delete of deleteDocument or the row update of
\* updateDocument is answered with a status other than 204
RowStatusFailureStep ==
  /\ last'.op \in {"deleteDocument.done", "updateDocument.done"}
  /\ last'.ret = "false"
  /\ \E i \in 1..Len(inflight) :
       /\ inflight[i].kind \in {"delete.row", "update.row"}
       /\ inflight' = RemoveAt(inflight, i)

\* a step in which the page query of getDocuments is answered with an error
\* payload
PageErrorStep == last'.op = "getDocuments.done" /\ last'.ret = "error"

\* the step recorded a failure in the error map and raised an error toast
FailureRecorded ==
  /\ "email" \in DOMAIN errors'
  /\ \E t \in toasts' : t.kind = "error"

\* C11: a gateway call that fails, by an error payload or by a status other
\* than 204 of the row update or row delete, is recorded in the error map
\* and raises an error toast, and the failed update or delete returns false.
C11_GatewayFailureRecordedAndReturned ==
  [][/\ PageErrorStep => FailureRecorded
     /\ RowStatusFailureStep => FailureRecorded /\ last'.ret = "false"]_vars

\* C12: after getUserDocuments returned rows, the collection holds exactly
\* those rows, in the order the gateway query returned them.
C12_UserDocumentsReplaceCollection ==
  (last.op = "getUserDocuments.done" /\ last.ret = "data") =>
    /\ Len(_documents) = Len(last.arg)
    /\ \A k \in 1..Len(last.arg) : _documents[k].id = last.arg[k].id

\* C13: whatever the interleaving of the collection calls and the responses
\* to their requests, the collection never holds the same document twice.
C13_NoDocumentTwice ==
  \A j, k \in 1..Len(_documents) : _documents[j].id = _documents[k].id => j = k

\* C14: once the calls made have completed (no request is awaiting its
\* answer), every row of the remote catalog has a url of a blob that is in
\* the storage bucket.
C14_UrlRefersToStoredBlob ==
  inflight = <<>> => \A k \in 1..Len(remote) : remote[k].url \in bucket

\* the users persisted as collaborators of the document id
persistedCollaborators(rows, id) == {c[2] : c \in {r \in rows : r[1] = id}}

\* C15: when updateDocument succeeded (its row update answered 204 and the
\* collaborator insert it awaits went through), the users persisted as the
\* document's collaborators are exactly those of the input list other than
\* the acting user, whatever status the delete of the previous rows reported.
C15_UpdateReplacesCollaborators ==
  [][\A i \in 1..Len(inflight) :
       (/\ inflight[i].kind = "collab.insert"
        /\ inflight[i].report = "data"
        /\ inflight' = RemoveAt(inflight, i)
        /\ last'.op = "updateDocument.done"
        /\ collaborators' = collaborators
             \cup {<<inflight[i].id, u>> : u \in Elements(inflight[i].payload)})
       => persistedCollaborators(collaborators', inflight[i].id)
            = Elements(inflight[i].input) \ {inflight[i].user}]_vars

C17_FailedFetchKeepsCollection ==
  [][/\ (last'.op = "getDocuments" \/ (last'.op = "nextPage" /\ ops' = ops + 1))
          => _documents' = _documents
     /\ (last'.op = "getDocuments.done" /\ last'.ret \in {"error", "throw"})
          => _documents' = _documents
     /\ last'.op = "getDocuments.done" => ~loadingAll' /\ ~loadingNextPage']_vars

C17_Witness ==
  /\ last.op = "getDocuments.done"
  /\ last.ret \in {"error", "throw"}
  /\ last.arg.range.from > 0
  /\ Len(_documents) = perPage
  /\ "email" \in DOMAIN errors
  /\ ~loadingAll
  /\ ~loadingNextPage

\* C18: once every fetch has resolved, that of the latest updateFilters or
\* resetFilters included, the collection holds only documents that match the
\* current filters: no answer to a fetch issued before the filters changed
\* was appended to the cleared collection.
C18_OnlyDocumentsOfCurrentFilters ==
  inflight = <<>> =>
    \A k \in 1..Len(_documents) : Matches(_documents[k], params.filters)

\* ------------------------------------------- a caller that awaits its calls
\* no page fetch is awaiting its answer (the count request of getDocuments is
\* not awaited and may still be)
NoFetchPending == \A i \in 1..Len(inflight) : inflight[i].kind # "page"

\* the view loads the first page, may change the filters, and pages on with
\* nextPage, each call made once the fetch of the call before it completed
AwaitedCall ==
  \/ last.op = "init" /\ GetDocuments
  \/ last.op # "init" /\ NextPage
  \/ last.op # "init" /\ \E f \in FilterValues : UpdateFilters(f)
  \/ last.op # "init" /\ ResetFilters

NextAwaited ==
  \/ ops < MaxAwaitedOps /\ NoFetchPending /\ AwaitedCall
  \/ CollectionResponse

SpecAwaited == Init /\ [][NextAwaited]_vars

\* C19: a caller that awaits each nextPage call stops paging: a page fetch
\* that adds no row to the collection, the count being known, leaves
\* limitReached true, so that the next call returns at once. (Were it false,
\* every later call would advance pageNumber and the range and fetch another
\* empty page of the static catalog, without end.)
C19_PagingStopsAtTheEnd ==
  [][(/\ last'.op = "getDocuments.done"
      /\ last'.ret = "data"
      /\ _documents' = _documents
      /\ totalDocuments # NoCount) => limitReached']_vars

\* the file metadata and url of the persisted row of the document id
fileColumns(rows, id) ==
  LET r == SelectSeq(rows, LAMBDA x : x.id = id)[1]
  IN <<r.file_size, r.file_type, r.original_name, r.url>>

\* C20: when the upload of the replacement file failed, the row update of
\* updateDocument leaves the file_size, file_type, original_name and url of
\* the persisted row as they were.
C20_FailedUploadKeepsFileMetadata ==
  [][\A i \in 1..Len(inflight) :
       (/\ inflight[i].kind = "update.row"
        /\ inflight[i].upload \in {"error", "throw"}
        /\ last'.op = "updateDocument.row"
        /\ SubSeq(inflight', 1, Len(inflight') - 1) = RemoveAt(inflight, i)
        /\ \E k \in 1..Len(remote) : remote[k].id = inflight[i].id)
       => fileColumns(remote', inflight[i].id) = fileColumns(remote, inflight[i].id)]_vars
====
